---------------------------- MODULE Spec2Model ----------------------------
(***************************************************************************)
(* ctrm: compile-time register machines (src/ctrm.hpp).                     *)
(*                                                                         *)
(* A program text is parsed by parser::parse into a fixed-size table of    *)
(* instructions (program<maxRegisters, instrCount>), which program::exec   *)
(* interprets.  Both are consteval: they are evaluated by the compiler's   *)
(* constant evaluator, so a call of the non-constexpr function error()     *)
(* and every access outside an array end the evaluation (no program, no    *)
(* result).  Characters are one-character strings; std::size_t values are  *)
(* naturals.                                                                *)
(***************************************************************************)
EXTENDS Integers, Sequences, FiniteSets, TLC

(***************************************************************************)
(* Characters                                                               *)
(***************************************************************************)
SP == " "
TAB == "\t"
NL == "\n"
\* the character '\0'
NUL == "NUL"

Digits == <<"0", "1", "2", "3", "4", "5", "6", "7", "8", "9">>

DigitChars == {Digits[k] : k \in 1..10}

\* c - '0'
DigitValue(c) == (CHOOSE k \in 1..10 : Digits[k] = c) - 1

\* std::numeric_limits<std::size_t>::max(): the location of an instruction
\* that has none.  No arithmetic is done on it.
SizeMax == 2147483647

(***************************************************************************)
(* impl::instruction                                                        *)
(***************************************************************************)
HALT == "HALT"
INCR == "INCR"
DECR == "DECR"

\* instruction(reg, loc1, loc2)
Decrement(reg, loc1, loc2) ==
    [type |-> DECR, currentRegister |-> reg, location1 |-> loc1, location2 |-> loc2]

\* instruction(reg, loc1)
Increment(reg, loc1) ==
    [type |-> INCR, currentRegister |-> reg, location1 |-> loc1, location2 |-> SizeMax]

\* instruction()
Halt ==
    [type |-> HALT, currentRegister |-> 0, location1 |-> SizeMax, location2 |-> SizeMax]

(***************************************************************************)
(* class parser.  P is the parser object [input, end, checked]; c holds    *)
(* the locals of one parse: the cursor `current`, the array `instr`, the   *)
(* integer last returned by parseInt (val), registerLocation,              *)
(* incrementInstruction, loc1, and the instruction the statement just      *)
(* parsed builds (ins); together with the reason the evaluation ended, if  *)
(* it did (fail), and whether input was read at an index >= end (oob).     *)
(* Once the evaluation has ended (fail # NoError) nothing has any further  *)
(* effect.                                                                  *)
(*                                                                         *)
(* input[pos] with pos >= end is outside the string_view.  What the build  *)
(* does there: a checked operator[] (libstdc++ asserts pos < size() during *)
(* constant evaluation) ends the evaluation; an unchecked one reads the    *)
(* '\0' that ends the literal when pos = end, and past it the constant     *)
(* evaluator ends the evaluation.  P.checked says which build it is.       *)
(***************************************************************************)
NoError == "none"
Trap == "read outside the input"

\* parser(std::string_view sv)
Parser(text, checked) == [input |-> text, end |-> Len(text), checked |-> checked]

\* a variant: the slots of the array start as "R0+ -> L0"
StartUnhalted(instrCount) ==
    [current |-> 0, instr |-> [k \in 1..instrCount |-> Increment(0, 0)], val |-> 0,
     registerLocation |-> 0, incrementInstruction |-> FALSE, loc1 |-> 0,
     ins |-> Halt, fail |-> NoError, oob |-> FALSE]

\* std::array<impl::instruction, instrCount> instr; std::size_t current{ 0 };
Start(instrCount) ==
    [current |-> 0, instr |-> [k \in 1..instrCount |-> Halt], val |-> 0,
     registerLocation |-> 0, incrementInstruction |-> FALSE, loc1 |-> 0,
     ins |-> Halt, fail |-> NoError, oob |-> FALSE]

\* error(msg): not a constant expression, the evaluation ends
error(c, msg) == [c EXCEPT !.fail = msg]

eof(P, c) == c.current >= P.end

\* the character input[pos] yields where the read is permitted
At(P, pos) == IF pos < P.end THEN P.input[pos + 1] ELSE NUL

\* the access input[pos]
Access(P, c, pos) ==
    IF c.fail # NoError \/ pos < P.end THEN c
    ELSE IF pos = P.end /\ ~P.checked THEN [c EXCEPT !.oob = TRUE]
    ELSE [c EXCEPT !.oob = TRUE, !.fail = Trap]

\* isChar(current, cs...): the comparison, once input[current] is read
isChar(P, c, cs) == At(P, c.current) \in cs

\* if (isChar(current, cs...)) { ++current; return true; } return false;
Advance(P, a, cs) ==
    IF a.fail = NoError /\ isChar(P, a, cs) THEN [a EXCEPT !.current = @ + 1]
    ELSE a

\* matchChar(current, cs...): the cursor advances iff it returns true
matchChar(P, c, cs) == Advance(P, Access(P, c, c.current), cs)

\* whether the match that took c to d returned true
Matched(c, d) == d.fail = NoError /\ d.current > c.current

\* if (!match) error(msg), for the match that took c to d
Expect(c, d, msg) ==
    IF d.fail = NoError /\ ~Matched(c, d) THEN error(d, msg) ELSE d

\* matchStr's loop: for (i = 0; i < N - 1; ++i)
RECURSIVE matchStrLoop(_, _, _, _, _)
matchStrLoop(P, c, str, i, success) ==
    IF c.fail # NoError THEN c
    ELSE IF i >= Len(str)
    THEN IF success THEN [c EXCEPT !.current = @ + Len(str)] ELSE c
    ELSE IF c.current + i = P.end
    THEN matchStrLoop(P, c, str, i + 1, FALSE)
    ELSE matchStrLoop(P, Access(P, c, c.current + i), str, i + 1,
                      success /\ At(P, c.current + i) = str[i + 1])

\* matchStr(current, str)
matchStr(P, c, str) == matchStrLoop(P, c, str, 0, TRUE)

\* parseInt's loop: while (true); isChar reads input[current] after
\* eof(current) was false
RECURSIVE parseIntLoop(_, _, _, _)
parseIntLoop(P, c, result, noIntParsed) ==
    IF c.fail # NoError THEN c
    ELSE IF ~eof(P, c) /\ isChar(P, c, DigitChars)
    THEN parseIntLoop(P, [c EXCEPT !.current = @ + 1],
                      result * 10 + DigitValue(At(P, c.current)), FALSE)
    ELSE IF noIntParsed THEN error(c, "Error: no number specified")
    ELSE [c EXCEPT !.val = result]

\* parseInt(current)
parseInt(P, c) == parseIntLoop(P, c, 0, TRUE)

\* parseLineNumber(current)
parseLineNumber(P, c) ==
    IF c.fail # NoError THEN c
    ELSE IF eof(P, c) THEN error(c, "Error: encountered unexpected end of file")
    ELSE parseInt(P, Expect(c, matchChar(P, c, {"L"}),
             "Syntax Error: expected line number but got something else"))

\* while (!eof(current) && matchChar(current, cs...));
RECURSIVE skip(_, _, _)
skip(P, c, cs) ==
    IF c.fail = NoError /\ ~eof(P, c) /\ isChar(P, c, cs)
    THEN skip(P, matchChar(P, c, cs), cs)
    ELSE c

\* a variant: newlines are not skipped
skipOnlySpaces(P, c) == skip(P, c, {TAB, SP})

\* skipLinesAndSpaces(current)
skipLinesAndSpaces(P, c) == skip(P, c, {NL, TAB, SP})

\* a variant: tabs are not skipped
skipBlanks(P, c) == skip(P, c, {SP})

\* skipSpaces(current)
skipSpaces(P, c) == skip(P, c, {TAB, SP})

\* if (!eof(current) && !matchChar(current, ';', '\n', '\0')) error(...)
ExpectTerminator(P, s) ==
    IF s.fail # NoError \/ eof(P, s) THEN s
    ELSE Expect(s, matchChar(P, s, {";", NL, NUL}),
                "Syntax Error: Missing statement terminator")

\* parseEOL(current)
parseEOL(P, c) == ExpectTerminator(P, skipSpaces(P, c))

\* a variant: a line number may run ahead of the slot
CheckLineNumberAhead(n, i) ==
    IF n.fail = NoError /\ n.val < i
    THEN error(n, "Program Error: line number specified in program is incorrect")
    ELSE n

\* if (parseLineNumber(current) != i) error(...)
CheckLineNumber(n, i) ==
    IF n.fail = NoError /\ n.val # i
    THEN error(n, "Program Error: line number specified in program is incorrect")
    ELSE n

\* if (eof(current) || !matchChar(current, ':')) error(...)
ExpectColon(P, s) ==
    IF s.fail # NoError THEN s
    ELSE IF eof(P, s)
    THEN error(s, "Syntax Error: expected ':' but got something else instead")
    ELSE Expect(s, matchChar(P, s, {":"}),
                "Syntax Error: expected ':' but got something else instead")

\* the body of if (isChar(current, 'L')): the "L<n>:" of slot i
parsePrefix(P, c, i) ==
    skipSpaces(P, ExpectColon(P, skipSpaces(P,
        CheckLineNumber(parseLineNumber(P, c), i))))

\* std::size_t registerLocation{ parseInt(current) };
SetRegisterLocation(n) ==
    IF n.fail = NoError THEN [n EXCEPT !.registerLocation = n.val] ELSE n

parseRegister(P, c) == SetRegisterLocation(parseInt(P, c))

\* switch (input[current]), once input[current] is read, and ++current
Sign(P, a) ==
    IF a.fail # NoError THEN a
    ELSE IF At(P, a.current) = "+"
    THEN [a EXCEPT !.incrementInstruction = TRUE, !.current = @ + 1]
    ELSE IF At(P, a.current) = "-"
    THEN [a EXCEPT !.incrementInstruction = FALSE, !.current = @ + 1]
    ELSE error(a, "Syntax Error: expected either '+' or '-' but got neither")

parseSign(P, c) == Sign(P, Access(P, c, c.current))

\* a variant: "->" is taken if it is there, and not missed if it is not
OptionalArrow(P, s) == matchStr(P, s, <<"-", ">">>)

\* if (!matchStr(current, "->")) error(...)
ExpectArrow(P, s) ==
    Expect(s, matchStr(P, s, <<"-", ">">>),
           "Syntax Error: expected \"->\" but got something else instead")

\* std::size_t loc1{ parseLineNumber(current) };
SetLoc1(n) == IF n.fail = NoError THEN [n EXCEPT !.loc1 = n.val] ELSE n

parseLoc1(P, c) == SetLoc1(parseLineNumber(P, c))

\* if (!matchChar(current, ',')) error(...)
ExpectComma(P, s) ==
    Expect(s, matchChar(P, s, {","}),
           "Syntax Error: expected ',' but got something else instead")

\* instr[i] = impl::instruction{ registerLocation, loc1 };
BuildIncrement(d) == [d EXCEPT !.ins = Increment(d.registerLocation, d.loc1)]

\* instr[i] = impl::instruction{ registerLocation, loc1, loc2 }; loc2 is
\* the line number parsed last
BuildDecrement(d) == [d EXCEPT !.ins = Decrement(d.registerLocation, d.loc1, d.val)]

\* instr[i] = impl::instruction{};
BuildHalt(d) == [d EXCEPT !.ins = Halt]

\* if (incrementInstruction) ... else ...
parseTargets(P, c) ==
    IF c.incrementInstruction THEN BuildIncrement(parseEOL(P, c))
    ELSE BuildDecrement(parseEOL(P, parseLineNumber(P, skipSpaces(P,
             ExpectComma(P, skipSpaces(P, c))))))

\* the body of if (!eof(current) && matchChar(current, 'R'))
parseRegisterStatement(P, c) ==
    parseTargets(P, parseLoc1(P, skipSpaces(P, ExpectArrow(P, skipSpaces(P,
        parseSign(P, skipSpaces(P, parseRegister(P, c))))))))

\* else if (matchChar(current, ';', '\n', '\0')) ... else error(...), for
\* the matchStr(current, "HALT") that took r to h
parseHaltOrEmpty(P, r, h) ==
    IF h.fail # NoError THEN h
    ELSE IF Matched(r, h) THEN BuildHalt(parseEOL(P, h))
    ELSE BuildHalt(Expect(h, matchChar(P, h, {";", NL, NUL}),
                          "Error: encountered unexpected characters"))

\* the if / else if chain, for the matchChar(current, 'R') that took c to r
parseAfterR(P, c, r) ==
    IF r.fail # NoError THEN r
    ELSE IF Matched(c, r) THEN parseRegisterStatement(P, r)
    ELSE parseHaltOrEmpty(P, r, matchStr(P, r, <<"H", "A", "L", "T">>))

\* one statement of parse's loop body
parseStatement(P, c) ==
    IF c.fail # NoError THEN c
    ELSE parseAfterR(P, c, IF eof(P, c) THEN c ELSE matchChar(P, c, {"R"}))

\* instr[i] = the instruction built, and the loop body's skipLinesAndSpaces
Store(P, s, i) ==
    IF s.fail # NoError THEN s
    ELSE skipLinesAndSpaces(P, [s EXCEPT !.instr[i + 1] = s.ins])

\* a variant: the loop goes on to the end of the text, keeping what fits
RECURSIVE parseLoopToEnd(_, _, _, _)
parseLoopToEnd(P, c, i, instrCount) ==
    IF c.fail # NoError \/ eof(P, c) THEN c
    ELSE parseLoopToEnd(P,
             Store(P, parseStatement(P, IF isChar(P, c, {"L"})
                                        THEN parsePrefix(P, c, i) ELSE c),
                   IF i < instrCount THEN i ELSE instrCount),
             i + 1, instrCount)

\* parse's loop: for (i = 0; i < instrCount && !eof(current); ++i)
RECURSIVE parseLoop(_, _, _, _)
parseLoop(P, c, i, instrCount) ==
    IF c.fail # NoError \/ ~(i < instrCount) \/ eof(P, c) THEN c
    ELSE parseLoop(P,
             Store(P, parseStatement(P, IF isChar(P, c, {"L"})
                                        THEN parsePrefix(P, c, i) ELSE c), i),
             i + 1, instrCount)

\* what parse leaves: the program, or the reason there is none
Parsed(c) ==
    [ok |-> c.fail = NoError,
     instructions |-> IF c.fail = NoError THEN c.instr ELSE << >>,
     fail |-> c.fail,
     oob |-> c.oob]

\* parse<maxRegisters>(): instr[i] is instructions[i + 1]
parse(P, instrCount) ==
    Parsed(parseLoop(P, skipLinesAndSpaces(P, Start(instrCount)), 0, instrCount))

\* make<maxRegisters, instrCount>(input)
make(text, checked, instrCount) == parse(Parser(text, checked), instrCount)

(***************************************************************************)
(* impl::getMaxArgs and generate                                            *)
(***************************************************************************)
SKIP == "SKIP"
READ_LOC == "READ_LOC"
READ_REG == "READ_REG"

\* one iteration of for (const char& c : chars): the switch on c
getMaxArgsStep(g, c) ==
    IF c = "L" THEN [g EXCEPT !.readInt = READ_LOC]
    ELSE IF c = "R" THEN [g EXCEPT !.readInt = READ_REG]
    ELSE IF c \in DigitChars
    THEN IF g.readInt # SKIP
         THEN [g EXCEPT !.result = g.result * 10 + DigitValue(c)]
         ELSE g
    ELSE IF g.result # 0
    THEN [readInt |-> SKIP, result |-> 0,
          maxLoc |-> IF g.readInt = READ_LOC /\ g.result > g.maxLoc
                     THEN g.result ELSE g.maxLoc,
          maxReg |-> IF g.readInt = READ_REG /\ g.result > g.maxReg
                     THEN g.result ELSE g.maxReg]
    ELSE g

\* the locals before the loop
getMaxArgsStart == [readInt |-> SKIP, result |-> 0, maxReg |-> 0, maxLoc |-> 0]

\* for (const char& c : chars), from chars[k] on with the locals g; in mode
\* SKIP a digit changes nothing
RECURSIVE getMaxArgsLoop(_, _, _)
getMaxArgsLoop(chars, k, g) ==
    IF k > Len(chars) THEN g
    ELSE IF g.readInt = SKIP /\ chars[k] \in DigitChars
    THEN getMaxArgsLoop(chars, k + 1, g)
    ELSE getMaxArgsLoop(chars, k + 1, getMaxArgsStep(g, chars[k]))

\* a variant: the number being read when the text ends is dropped
getMaxArgsUnflushed(g) ==
    [first |-> g.maxReg + 1, second |-> g.maxLoc + 1]

\* a variant: as many slots as the largest location, not one more
getMaxArgsTight(g) ==
    [first  |-> (IF g.readInt = READ_REG /\ g.result > g.maxReg
                 THEN g.result ELSE g.maxReg) + 1,
     second |-> (IF g.readInt = READ_LOC /\ g.result > g.maxLoc
                 THEN g.result ELSE g.maxLoc)]

\* the two ifs after the loop, and return { maxReg + 1, maxLoc + 1 }
getMaxArgsReturn(g) ==
    [first  |-> (IF g.readInt = READ_REG /\ g.result > g.maxReg
                 THEN g.result ELSE g.maxReg) + 1,
     second |-> (IF g.readInt = READ_LOC /\ g.result > g.maxLoc
                 THEN g.result ELSE g.maxLoc) + 1]

\* getMaxArgs<Input...>(): the pair as [first, second]
getMaxArgs(chars) ==
    getMaxArgsReturn(getMaxArgsLoop(chars, 1, getMaxArgsStart))

\* std::string_view(const char*) over string{ Cs..., '\0' }: the characters
\* before the first '\0'
UpToNul(chars) ==
    LET nuls == {k \in 1..Len(chars) : chars[k] = NUL}
    IN  IF nuls = {} THEN chars
        ELSE SubSeq(chars, 1, (CHOOSE k \in nuls : \A j \in nuls : k <= j) - 1)

(***************************************************************************)
(* program::exec.  Registers have IntBits bits (IntType); values[k + 1] is *)
(* register k.  A run is [pc, args, values, halt, loc, steps, result]:     *)
(* pc is "idle" before the call, "loop" inside while (!halt), "returned"   *)
(* after return values[0], and "error" when the evaluation ended at an     *)
(* access outside instructions or values.  steps counts the instructions   *)
(* fetched, as far as MaxSteps.                                             *)
(***************************************************************************)
IntBits == 4

Modulus == 2 ^ IntBits

MaxSteps == 6

\* a variant: the registers no argument initialises are left as they come
\* (std::array<IntType, maxRegisters> values; without the braces)
InitialValuesUnpadded(args, maxRegs) ==
    [k \in 1..maxRegs |-> IF k <= Len(args) THEN args[k] % Modulus ELSE Modulus - 1]

\* std::array<IntType, maxRegisters> values{ static_cast<IntType>(args)... }
InitialValues(args, maxRegs) ==
    [k \in 1..maxRegs |-> IF k <= Len(args) THEN args[k] % Modulus ELSE 0]

IdleRun ==
    [pc |-> "idle", args |-> << >>, values |-> << >>, halt |-> FALSE, loc |-> 0,
     steps |-> 0, result |-> 0]

\* the call of exec(args...): the locals before the loop
EnterExec(args, maxRegs) ==
    [pc |-> "loop", args |-> args, values |-> InitialValues(args, maxRegs),
     halt |-> FALSE, loc |-> 0, steps |-> 0, result |-> 0]

\* a variant: registers that are mathematical integers and never wrap
IncrementUnbounded(values, reg) ==
    [values EXCEPT ![reg + 1] = @ + 1]

\* a variant: a register at the largest value stays there
IncrementSaturating(values, reg) ==
    [values EXCEPT ![reg + 1] = IF @ = Modulus - 1 THEN @ ELSE @ + 1]

\* ++values[reg]
IncrementRegister(values, reg) ==
    [values EXCEPT ![reg + 1] = (@ + 1) % Modulus]

\* a variant: a decrement that empties the register
DecrementClearing(values, reg) ==
    [values EXCEPT ![reg + 1] = 0]

\* --values[reg]
DecrementRegister(values, reg) ==
    [values EXCEPT ![reg + 1] = (@ + Modulus - 1) % Modulus]

\* a variant: a decrement without the test values[currentRegister] > 0
DispatchUnguarded(run, current, maxRegs) ==
    IF current.type = HALT THEN [run EXCEPT !.halt = TRUE]
    ELSE IF ~(current.currentRegister < maxRegs) THEN [run EXCEPT !.pc = "error"]
    ELSE IF current.type = INCR
    THEN [run EXCEPT !.values = IncrementRegister(@, current.currentRegister),
                     !.loc = current.location1]
    ELSE [run EXCEPT !.values = DecrementRegister(@, current.currentRegister),
                     !.loc = current.location1]

\* the if / else if chain on current.type: the run after the instruction
Dispatch(run, current, maxRegs) ==
    IF current.type = HALT THEN [run EXCEPT !.halt = TRUE]
    ELSE IF ~(current.currentRegister < maxRegs) THEN [run EXCEPT !.pc = "error"]
    ELSE IF current.type = INCR
    THEN [run EXCEPT !.values = IncrementRegister(@, current.currentRegister),
                     !.loc = current.location1]
    ELSE IF run.values[current.currentRegister + 1] > 0
    THEN [run EXCEPT !.values = DecrementRegister(@, current.currentRegister),
                     !.loc = current.location1]
    ELSE [run EXCEPT !.loc = current.location2]

\* if (loc > instrCount) halt = true;
CheckLocation(run, instrCount) ==
    IF run.pc = "loop" /\ run.loc > instrCount THEN [run EXCEPT !.halt = TRUE]
    ELSE run

\* a variant: the loop gives up after MaxSteps iterations
IterateBudgeted(run, instructions, maxRegs, instrCount) ==
    LET counted == [run EXCEPT !.steps = IF @ < MaxSteps THEN @ + 1 ELSE @]
    IN  IF ~(run.loc < instrCount) THEN [counted EXCEPT !.pc = "error"]
        ELSE IF counted.steps = MaxSteps THEN [counted EXCEPT !.halt = TRUE]
        ELSE CheckLocation(Dispatch(counted, instructions[run.loc + 1], maxRegs),
                           instrCount)

\* one iteration of while (!halt)
Iterate(run, instructions, maxRegs, instrCount) ==
    LET counted == [run EXCEPT !.steps = IF @ < MaxSteps THEN @ + 1 ELSE @]
    IN  IF ~(run.loc < instrCount) THEN [counted EXCEPT !.pc = "error"]
        ELSE CheckLocation(Dispatch(counted, instructions[run.loc + 1], maxRegs),
                           instrCount)

\* return values[0];
ReturnValue(run, maxRegs) ==
    IF maxRegs = 0 THEN [run EXCEPT !.pc = "error"]
    ELSE [run EXCEPT !.pc = "returned", !.result = run.values[1]]

(***************************************************************************)
(* Program texts.  A text is written as a sequence of lines, each          *)
(* [prefix, stmt, gap, sep, defect, cut]: the number of its "L<n>:" prefix *)
(* (-1: no prefix), its statement (an instruction, or BLANK for none), the *)
(* spaces written at the nine places where the syntax allows them, its     *)
(* terminator (<< >>: end of input), and what is wrong with it, if         *)
(* anything.  Render gives the characters handed to make / generate.       *)
(***************************************************************************)
BLANK == "BLANK"

Blank == [type |-> BLANK, currentRegister |-> 0, location1 |-> SizeMax, location2 |-> SizeMax]

RECURSIVE ToDigits(_)
ToDigits(n) ==
    IF n < 10 THEN <<Digits[n + 1]>>
    ELSE ToDigits(n \div 10) \o <<Digits[(n % 10) + 1]>>

\* the same spaces at every place
Uniform(g) == [k \in 1..9 |-> g]

\* the spacing of the README's example: "L0 : R1- -> L1, L2"
ReadmeStyle == << << >>, <<SP>>, <<SP>>, << >>, <<SP>>, <<SP>>, << >>, <<SP>>, << >> >>

RenderStatement(ins, g, defect) ==
    LET reg   == <<"R">> \o (IF defect = "noRegister" THEN << >>
                             ELSE ToDigits(ins.currentRegister))
        sign  == IF defect = "badSign" THEN <<"*">>
                 ELSE IF ins.type = INCR THEN <<"+">> ELSE <<"-">>
        arrow == IF defect = "noArrow" THEN << >> ELSE <<"-", ">">>
        loc1  == <<"L">> \o (IF defect = "noLocation" THEN << >>
                             ELSE ToDigits(ins.location1))
        comma == IF defect = "noComma" THEN << >> ELSE <<",">>
        head  == reg \o g[4] \o sign \o g[5] \o arrow \o g[6] \o loc1
    IN  IF ins.type = HALT THEN <<"H", "A", "L", "T">>
        ELSE IF ins.type = BLANK THEN << >>
        ELSE IF ins.type = INCR THEN head
        ELSE head \o g[7] \o comma \o g[8] \o <<"L">> \o ToDigits(ins.location2)

RenderLine(l) ==
    LET prefix == IF l.prefix >= 0
                  THEN <<"L">> \o ToDigits(l.prefix) \o l.gap[2] \o <<":">> \o l.gap[3]
                  ELSE << >>
        stmt   == RenderStatement(l.stmt, l.gap, l.defect)
    IN  IF l.cut >= 0 THEN l.gap[1] \o prefix \o SubSeq(stmt, 1, l.cut)
        ELSE l.gap[1] \o prefix \o stmt
             \o (IF l.defect = "junk" THEN <<"x">> ELSE << >>)
             \o l.gap[9]
             \o (IF l.defect = "noTerminator" THEN <<SP>> ELSE l.sep)

RECURSIVE RenderFrom(_, _)
RenderFrom(ls, k) ==
    IF k > Len(ls) THEN << >> ELSE RenderLine(ls[k]) \o RenderFrom(ls, k + 1)

Render(ls) == RenderFrom(ls, 1)

Line(prefix, stmt, gap, sep) ==
    [prefix |-> prefix, stmt |-> stmt, gap |-> gap, sep |-> sep,
     defect |-> "none", cut |-> -1]

\* the lines of stmts, numbered L0, L1, ... or not, separated by sep, the
\* last one ended by last
Source(stmts, numbered, gap, sep, last) ==
    [k \in 1..Len(stmts) |->
        Line(IF numbered THEN k - 1 ELSE -1, stmts[k], gap,
             IF k = Len(stmts) THEN last ELSE sep)]

\* the example of the README and of main(): it adds R1 and R2 to R0
AdditionLines ==
    Source(<<Decrement(1, 1, 2), Increment(0, 0), Decrement(2, 3, 4),
             Increment(0, 2), Halt>>, TRUE, ReadmeStyle, <<NL>>, << >>)

(***************************************************************************)
(* The state: the lines written and their text, the template arguments of  *)
(* make (or those generate computes), the program made, and the calls of   *)
(* exec by each caller.                                                     *)
(***************************************************************************)
VARIABLES lines, input, maxRegisters, instrCount, program, callers, runs

vars == <<lines, input, maxRegisters, instrCount, program, callers, runs>>

RunIds == {1, 2}

NoProgram ==
    [made |-> FALSE, ok |-> FALSE, instructions |-> << >>, fail |-> NoError,
     oob |-> FALSE, by |-> "none"]

Made(r, by) ==
    [made |-> TRUE, ok |-> r.ok, instructions |-> r.instructions, fail |-> r.fail,
     oob |-> r.oob, by |-> by]

\* constexpr auto p{ ctrm::make<maxRegisters, instrCount>(input) };
Make ==
    /\ ~program.made
    /\ \E checked \in BOOLEAN :
           program' = Made(make(input, checked, instrCount), "make")
    /\ UNCHANGED <<lines, input, maxRegisters, instrCount, callers, runs>>

\* auto p{ generate<Cs...>() }, or "..."_ctrm
Generate ==
    /\ ~program.made
    /\ LET maxArgs == getMaxArgs(input)
       IN  /\ maxRegisters' = maxArgs.first
           /\ instrCount' = maxArgs.second
           /\ \E checked \in BOOLEAN :
                  program' = Made(make(UpToNul(input), checked, maxArgs.second),
                                  "generate")
    /\ UNCHANGED <<lines, input, callers, runs>>

\* the initial values a caller may pass: at most maxRegisters of them
ArgumentValues == {0, 1, 2, 3, 5, Modulus - 1}

Arguments(m) == UNION {[1..k -> ArgumentValues] : k \in 0..m}

\* a variant: the registers no argument initialises keep what the caller's
\* last call left in them
ExecCarryOver(r, args) ==
    /\ program.made /\ program.ok
    /\ runs[r].pc # "loop"
    /\ runs' = [runs EXCEPT ![r] =
                   [EnterExec(args, maxRegisters) EXCEPT !.values =
                       IF runs[r].pc = "returned"
                       THEN [k \in 1..maxRegisters |->
                                IF k <= Len(args) THEN @[k] ELSE runs[r].values[k]]
                       ELSE @]]
    /\ UNCHANGED <<lines, input, maxRegisters, instrCount, program, callers>>

\* p.exec<IntType>(args...)
Exec(r, args) ==
    /\ program.made /\ program.ok
    /\ runs[r].pc # "loop"
    /\ runs' = [runs EXCEPT ![r] = EnterExec(args, maxRegisters)]
    /\ UNCHANGED <<lines, input, maxRegisters, instrCount, program, callers>>

\* a variant: one register file for all callers (static storage), every
\* caller inside the loop sees what the iteration wrote
StepSharedRegisters(r) ==
    /\ runs[r].pc = "loop" /\ ~runs[r].halt
    /\ runs' = [q \in RunIds |->
                   IF q = r
                   THEN Iterate(runs[r], program.instructions, maxRegisters, instrCount)
                   ELSE IF runs[q].pc = "loop"
                   THEN [runs[q] EXCEPT !.values =
                            Iterate(runs[r], program.instructions, maxRegisters,
                                    instrCount).values]
                   ELSE runs[q]]
    /\ UNCHANGED <<lines, input, maxRegisters, instrCount, program, callers>>

\* an iteration of exec's loop
Step(r) ==
    /\ runs[r].pc = "loop" /\ ~runs[r].halt
    /\ runs' = [runs EXCEPT ![r] =
                   Iterate(runs[r], program.instructions, maxRegisters, instrCount)]
    /\ UNCHANGED <<lines, input, maxRegisters, instrCount, program, callers>>

\* the loop is left: return values[0]
Return(r) ==
    /\ runs[r].pc = "loop" /\ runs[r].halt
    /\ runs' = [runs EXCEPT ![r] = ReturnValue(runs[r], maxRegisters)]
    /\ UNCHANGED <<lines, input, maxRegisters, instrCount, program, callers>>

(***************************************************************************)
(* Spec: small programs and the README's example, made and executed by one *)
(* caller.                                                                  *)
(***************************************************************************)
ExecRegisters == {0, 1}

ExecLocations == {0, 1, 2}

ExecStatements ==
    {Increment(r, l) : r \in ExecRegisters, l \in ExecLocations}
    \cup {Decrement(r, l1, l2) : r \in ExecRegisters, l1 \in ExecLocations,
                                 l2 \in ExecLocations}
    \cup {Halt}

\* the small programs: one or two statements
ExecPrograms == UNION {[1..k -> ExecStatements] : k \in {1, 2}}

\* a call site: the lines and the template arguments
CallSite(ls, m, n) == [lines |-> ls, maxRegisters |-> m, instrCount |-> n]

ExecCallSites ==
    {CallSite(Source(ss, TRUE, Uniform(<<SP>>), <<NL>>, << >>), m, n) :
        ss \in ExecPrograms, m \in {1, 2}, n \in {1, 2}}
    \cup {CallSite(AdditionLines, 3, 5)}

InitSite(sites, who) ==
    /\ \E cs \in sites :
           /\ lines = cs.lines
           /\ input = Render(cs.lines)
           /\ maxRegisters = cs.maxRegisters
           /\ instrCount = cs.instrCount
    /\ program = NoProgram
    /\ callers = who
    /\ runs = [r \in RunIds |-> IdleRun]

Init == InitSite(ExecCallSites, {1})

Next ==
    \/ Make
    \/ Generate
    \/ \E r \in callers : \E args \in Arguments(maxRegisters) : Exec(r, args)
    \/ \E r \in callers : Step(r)
    \/ \E r \in callers : Return(r)

Spec == Init /\ [][Next]_vars

(***************************************************************************)
(* SpecParse: texts handed to make and to generate.  The plain texts are   *)
(* well formed; the others are plain texts with one line misnumbered, one  *)
(* line defective, the text cut inside a statement, or a line holding only *)
(* a terminator put in.                                                     *)
(***************************************************************************)
\* the longest plain text, in lines
MaxLines == 2

\* the largest instrCount handed to make
MaxCapacity == 3

ParseStatements == {Increment(0, 1), Decrement(1, 2, 0), Decrement(10, 12, 3), Halt}

ParsePrograms == UNION {[1..k -> ParseStatements] : k \in 1..MaxLines}

Gaps == {Uniform(<< >>), ReadmeStyle, Uniform(<<SP, TAB>>)}

Separators == {<<";">>, <<NL>>}

PlainLines ==
    {Source(ss, numbered, g, sep, last) :
        ss \in ParsePrograms, numbered \in BOOLEAN, g \in Gaps,
        sep \in Separators, last \in Separators \cup {<< >>}}

BaseStatements == {Increment(0, 1), Decrement(10, 12, 3), Halt}

BasePrograms == UNION {[1..k -> BaseStatements] : k \in 1..MaxLines}

\* the plain texts the other families start from
BaseLines(numbered) ==
    {Source(ss, numbered, g, sep, << >>) :
        ss \in BasePrograms, g \in {Uniform(<< >>), ReadmeStyle}, sep \in Separators}

\* six instructions, for a capacity of three
SixLines ==
    Source(<<Increment(0, 1), Increment(1, 2), Decrement(0, 3, 4), Increment(2, 4),
             Decrement(1, 0, 5), Halt>>, TRUE, ReadmeStyle, <<NL>>, << >>)

\* one "L<n>:" is not the index of its line
MisnumberedAt(ls, k) ==
    {[ls EXCEPT ![k].prefix = n] : n \in (0..MaxLines) \ {k - 1}}

MisnumberedLines ==
    UNION {UNION {MisnumberedAt(ls, k) : k \in 1..Len(ls)} : ls \in BaseLines(TRUE)}

Defects ==
    {"noRegister", "badSign", "noArrow", "noLocation", "noComma", "junk",
     "noTerminator"}

\* whether line k of ls can have the defect
Applies(ls, k, defect) ==
    /\ defect = "noComma" => ls[k].stmt.type = DECR
    /\ defect \in {"noRegister", "badSign", "noArrow", "noLocation"}
          => ls[k].stmt.type \in {INCR, DECR}
    /\ defect = "noTerminator" => k < Len(ls)

\* one line is defective
DefectiveAt(ls, k) ==
    {[ls EXCEPT ![k].defect = d] : d \in {e \in Defects : Applies(ls, k, e)}}

DefectiveLines ==
    UNION {UNION {DefectiveAt(ls, k) : k \in 1..Len(ls)} :
              ls \in BaseLines(TRUE) \cup BaseLines(FALSE)}

\* the number a statement ends with, in digits
LastNumber(ins) ==
    ToDigits(IF ins.type = DECR THEN ins.location2 ELSE ins.location1)

\* the cuts that leave a statement unfinished: before its last number begins
Cuts(l) ==
    IF l.stmt.type = HALT THEN 1..3
    ELSE 1..(Len(RenderStatement(l.stmt, l.gap, "none")) - Len(LastNumber(l.stmt)))

\* the text ends inside the statement of line k
CutAt(ls, k) ==
    {[SubSeq(ls, 1, k) EXCEPT ![k].cut = c] : c \in Cuts(ls[k])}

CutLines ==
    UNION {UNION {CutAt(ls, k) : k \in 1..Len(ls)} :
              ls \in BaseLines(TRUE) \cup BaseLines(FALSE)}

\* ls with line b before its line k; a line that ended the text and no
\* longer does is ended by sep
InsertLine(ls, k, b, sep) ==
    [j \in 1..(Len(ls) + 1) |->
        IF j < k THEN (IF ls[j].sep = << >> THEN [ls[j] EXCEPT !.sep = sep] ELSE ls[j])
        ELSE IF j = k THEN b ELSE ls[j - 1]]

\* a line of only a terminator, with or without "L<n>:", put in as line k;
\* only at the end of the text is its terminator the end of input
TerminatorAt(ls, k) ==
    {InsertLine(ls, k, Line(n, Blank, ls[1].gap, sep), before) :
        n \in {-1, k - 1},
        sep \in Separators \cup (IF k = Len(ls) + 1 THEN {<< >>} ELSE { }),
        before \in Separators}

TerminatorLines ==
    UNION {UNION {TerminatorAt(ls, k) : k \in 1..(Len(ls) + 1)} :
              ls \in BaseLines(FALSE)}

ParseLines ==
    PlainLines \cup MisnumberedLines \cup DefectiveLines \cup CutLines
    \cup TerminatorLines

ParseCallSites ==
    {CallSite(ls, m, n) : ls \in ParseLines, m \in {1}, n \in 1..MaxCapacity}
    \cup {CallSite(SixLines, 3, 3)}

InitParse == InitSite(ParseCallSites, { })

NextParse == Make \/ Generate

SpecParse == InitParse /\ [][NextParse]_vars

(***************************************************************************)
(* SpecRuns: one program, made once, executed by two callers, each any     *)
(* number of times.                                                         *)
(***************************************************************************)
RunStatements ==
    {Increment(0, 1), Increment(1, 0), Decrement(0, 0, 1), Decrement(1, 1, 2), Halt}

RunCallSites ==
    {CallSite(Source(<<s1, s2>>, TRUE, ReadmeStyle, <<NL>>, << >>), 2, 2) :
        s1 \in RunStatements, s2 \in RunStatements}

RunArguments == {<< >>, <<1>>, <<2, 1>>, <<0, Modulus - 1>>}

InitRuns == InitSite(RunCallSites, RunIds)

NextRuns ==
    \/ Make
    \/ Generate
    \/ \E r \in callers :
           \E args \in {a \in RunArguments : Len(a) <= maxRegisters} : Exec(r, args)
    \/ \E r \in callers : Step(r)
    \/ \E r \in callers : Return(r)

SpecRuns == InitRuns /\ [][NextRuns]_vars

(***************************************************************************)
(* The parser.  Claims about texts are stated over the lines the text was  *)
(* written from.                                                            *)
(***************************************************************************)
\* a statement written as the grammar has it
WellWritten(l) == l.stmt.type # BLANK /\ l.defect = "none" /\ l.cut < 0

\* line k carries no "L<n>:" or the one of slot k - 1
Numbered(ls, k) == ls[k].prefix \in {-1, k - 1}

\* the first n lines are statements as the grammar has them: line k fills
\* slot k - 1
PlainUpTo(ls, n) ==
    n <= Len(ls) /\ \A k \in 1..n : WellWritten(ls[k]) /\ Numbered(ls, k)

\* there is no program: the evaluation of make has ended in an error
NoProgramMade == ~program.ok /\ program.instructions = << >>

\* C5: when the line of a slot that is parsed carries "L<n>:" with n not
\* the index of the slot, parse fails for that reason and there is no program.
C5_WrongLineNumberFails ==
    \A k \in 1..Len(lines) :
        (/\ program.made /\ k <= instrCount
         /\ PlainUpTo(lines, k - 1)
         /\ lines[k].prefix >= 0 /\ lines[k].prefix # k - 1)
        => /\ NoProgramMade
           /\ program.fail
              = "Program Error: line number specified in program is incorrect"

\* "L0:" followed by "L2:", with room for both, has failed
C5_Witness ==
    /\ program.made /\ instrCount >= 2 /\ Len(lines) = 2
    /\ lines[1].prefix = 0 /\ lines[2].prefix = 2
    /\ NoProgramMade

\* C6: when the statement of a slot that is parsed violates the grammar (no
\* "->", no ',' before the second target, a sign other than '+' and '-', no
\* digit where a number is expected, no terminator after the statement, or
\* the text ending inside the statement), parse fails and there is no
\* program, whatever the lines before it were.
C6_MalformedStatementFails ==
    \A k \in 1..Len(lines) :
        (/\ program.made /\ k <= instrCount
         /\ PlainUpTo(lines, k - 1) /\ Numbered(lines, k)
         /\ lines[k].stmt.type # BLANK
         /\ lines[k].defect # "none" \/ lines[k].cut >= 0)
        => NoProgramMade

\* "R0+ L1" in a second line has failed for its missing "->", the first
\* line being fine
C6_Witness ==
    /\ program.made /\ instrCount >= 2 /\ Len(lines) = 2
    /\ PlainUpTo(lines, 1)
    /\ lines[2].stmt = Increment(0, 1) /\ lines[2].defect = "noArrow"
    /\ NoProgramMade
    /\ program.fail
       = "Syntax Error: expected \"->\" but got something else instead"

\* C7: when the text has more lines than instrCount and the first
\* instrCount of them are statements as the grammar has them, parse
\* succeeds and the program is those instrCount statements in order,
\* whatever the later lines are.
C7_CapacityTruncation ==
    (/\ program.made /\ Len(lines) > instrCount
     /\ PlainUpTo(lines, instrCount))
    => /\ program.ok
       /\ program.instructions = [k \in 1..instrCount |-> lines[k].stmt]

\* six instructions made with instrCount 3: the first three
C7_Witness ==
    /\ program.made /\ program.ok
    /\ lines = SixLines /\ instrCount = 3
    /\ program.instructions
       = <<Increment(0, 1), Increment(1, 2), Decrement(0, 3, 4)>>

\* every line is as the grammar has it, a line of only a terminator included
WellFormedText(ls) ==
    \A k \in 1..Len(ls) : ls[k].defect = "none" /\ ls[k].cut < 0 /\ Numbered(ls, k)

\* the instruction a line stands for
StatementOf(l) == IF l.stmt.type = BLANK THEN Halt ELSE l.stmt

\* n slots filled with the statements of ls in order, Halt where they end
Slots(ls, n) == [j \in 1..n |-> IF j <= Len(ls) THEN StatementOf(ls[j]) ELSE Halt]

\* ls without its line k
Without(ls, k) == [j \in 1..(Len(ls) - 1) |-> IF j < k THEN ls[j] ELSE ls[j + 1]]

\* line k holds only a terminator, every other line a statement
OnlyTerminator(ls, k) ==
    /\ WellFormedText(ls)
    /\ ls[k].stmt.type = BLANK
    /\ \A j \in 1..Len(ls) : j # k => ls[j].stmt.type # BLANK

\* a line of nothing but a newline or the end of input: skipLinesAndSpaces
\* takes it with the line before
Skipped(l) == l.stmt.type = BLANK /\ l.prefix < 0 /\ l.sep # <<";">>

MaxOf(S) == IF S = { } THEN 0 ELSE CHOOSE x \in S : \A y \in S : y <= x

\* the n of every "R<n>" of the lines
RegistersIn(ls) ==
    {ls[k].stmt.currentRegister :
        k \in {j \in 1..Len(ls) : ls[j].stmt.type \in {INCR, DECR}}}

\* the n of every "L<n>" of the lines: prefixes and targets
LocationsIn(ls) ==
    {ls[k].prefix : k \in {j \in 1..Len(ls) : ls[j].prefix >= 0}}
    \cup {ls[k].stmt.location1 :
             k \in {j \in 1..Len(ls) : ls[j].stmt.type \in {INCR, DECR}}}
    \cup {ls[k].stmt.location2 : k \in {j \in 1..Len(ls) : ls[j].stmt.type = DECR}}

\* C9: for a well-formed text getMaxArgs, as generate applies it, gives the
\* largest register index plus one and the largest location index (line
\* prefixes and jump targets alike) plus one, the largest being 0 where the
\* text names none.
C9_GetMaxArgs ==
    (program.by = "generate" /\ WellFormedText(lines))
    => /\ maxRegisters = MaxOf(RegistersIn(lines)) + 1
       /\ instrCount = MaxOf(LocationsIn(lines)) + 1

\* generate on "R10- -> L12, L3" and "R0+ -> L1" up to the end of the text
C9_Witness ==
    /\ program.by = "generate" /\ WellFormedText(lines) /\ Len(lines) = 2
    /\ lines[1].stmt = Decrement(10, 12, 3)
    /\ lines[2].stmt = Increment(0, 1) /\ lines[2].sep = << >>
    /\ maxRegisters = 11 /\ instrCount = 13

(***************************************************************************)
(* The executor.                                                            *)
(***************************************************************************)
\* caller r is in exec's loop and the loop condition holds
InLoop(r) == runs[r].pc = "loop" /\ ~runs[r].halt

\* caller r's run changes: while InLoop(r) only Step(r) can do that
Stepped(r) == InLoop(r) /\ runs'[r] # runs[r]

\* the registers caller r's current call started with
Initial(r) == InitialValues(runs[r].args, maxRegisters)

\* C1: whenever the program counter of a run is at or beyond the number of
\* instruction slots, the loop ends: the run has halted (and goes on to
\* return register 0), it never fetches an instruction there.
C1_FallOffHalts ==
    \A r \in callers :
        (runs[r].pc = "loop" /\ runs[r].loc >= instrCount) => runs[r].halt

C2Lines == Source(<<Decrement(0, 1, 1)>>, TRUE, Uniform(<<SP>>), <<NL>>, << >>)

\* C2: the program "L0: R0- -> L1, L1" made with capacity 1 and run with
\* register 0 at zero halts after its one instruction: once an instruction
\* has been dispatched the loop has ended, the run has not failed, and what
\* it returns is 0.
C2_DecrementOnZeroHalts ==
    \A r \in callers :
        (/\ lines = C2Lines /\ program.by = "make" /\ instrCount = 1
         /\ runs[r].pc # "idle" /\ Initial(r)[1] = 0 /\ runs[r].steps >= 1)
        => /\ runs[r].steps = 1
           /\ runs[r].pc \in {"loop", "returned"}
           /\ runs[r].halt
           /\ runs[r].values[1] = 0
           /\ runs[r].pc = "returned" => runs[r].result = 0

\* the README's example, parsed into five slots, three registers
IsAddition ==
    /\ lines = AdditionLines /\ program.made /\ program.ok
    /\ maxRegisters = 3 /\ instrCount = 5

\* what is left to do of the addition: two iterations for each unit of R1,
\* then two for each unit of R2, and the instructions up to HALT
AdditionRank(run) ==
    2 * (run.values[2] + run.values[3])
    + (CASE run.loc = 0 -> 3 [] run.loc = 1 -> 4 [] run.loc = 2 -> 1
         [] run.loc = 3 -> 2 [] OTHER -> 0)

\* the three registers together, with the unit that has left R1 or R2 and
\* is on its way to R0 (at L1 and L3)
AdditionTotal(run) ==
    run.values[1] + run.values[2] + run.values[3]
    + (IF run.loc \in {1, 3} THEN 1 ELSE 0)

\* C3: the addition program terminates on every initial assignment and
\* returns r0 + r1 + r2 modulo the width of the integer type: each iteration
\* either halts or lowers AdditionRank and keeps AdditionTotal modulo
\* 2^IntBits, it halts with R1 and R2 both zero, and a run that returns
\* returns the sum of its three initial values modulo 2^IntBits.
C3_AdditionReturnsSum ==
    [][\A r \in callers :
          /\ (IsAddition /\ Stepped(r)) =>
                 /\ runs'[r].pc = "loop"
                 /\ runs'[r].halt \/ AdditionRank(runs'[r]) < AdditionRank(runs[r])
                 /\ runs'[r].halt => runs'[r].values[2] + runs'[r].values[3] = 0
                 /\ AdditionTotal(runs'[r]) % Modulus
                    = (Initial(r)[1] + Initial(r)[2] + Initial(r)[3]) % Modulus
          /\ (IsAddition /\ runs[r].pc = "loop" /\ runs'[r].pc = "returned") =>
                 runs'[r].result
                 = (Initial(r)[1] + Initial(r)[2] + Initial(r)[3]) % Modulus
      ]_vars

\* the call of main(): exec(0, 3, 5) has returned 8
C3_Witness ==
    \E r \in callers :
        /\ IsAddition /\ maxRegisters = 3 /\ instrCount = 5
        /\ runs[r].args = <<0, 3, 5>>
        /\ runs[r].pc = "returned" /\ runs[r].result = 8

\* C4: a decrement of a register holding zero changes no register and goes
\* to its second target; a decrement of a positive register lowers it by
\* one, changes no other register and goes to its first target.
C4_DecrementZeroGuard ==
    [][\A r \in callers :
          (/\ Stepped(r) /\ runs[r].loc < instrCount
           /\ program.instructions[runs[r].loc + 1].type = DECR
           /\ program.instructions[runs[r].loc + 1].currentRegister < maxRegisters)
          => LET current == program.instructions[runs[r].loc + 1]
                 reg == current.currentRegister + 1
             IN  IF runs[r].values[reg] = 0
                 THEN /\ runs'[r].values = runs[r].values
                      /\ runs'[r].loc = current.location2
                 ELSE /\ runs'[r].values =
                             [runs[r].values EXCEPT ![reg] = @ - 1]
                      /\ runs'[r].loc = current.location1
      ]_vars

\* the first instruction was a decrement of a register holding zero, whose
\* targets differ: the run is at the second target, its registers as they were
C4_Witness ==
    \E r \in callers :
        /\ program.made /\ program.ok /\ instrCount >= 1
        /\ runs[r].pc = "loop" /\ runs[r].steps = 1
        /\ LET first == program.instructions[1]
           IN  /\ first.type = DECR
               /\ first.currentRegister < maxRegisters
               /\ first.location1 # first.location2
               /\ Initial(r)[first.currentRegister + 1] = 0
               /\ runs[r].loc = first.location2
               /\ runs[r].values = Initial(r)

\* the text parse was given
ParsedText == IF program.by = "generate" THEN UpToNul(input) ELSE input

\* two runs agree on where they are
SameState(a, b) ==
    /\ a.loc = b.loc /\ a.values = b.values /\ a.halt = b.halt
    /\ (a.pc = "error") = (b.pc = "error")
    /\ (a.pc = "returned" /\ b.pc = "returned") => a.result = b.result

AloneFuel == 4 * Modulus + 8

\* exec(args...) with nothing else going on: the loop run to its end, as
\* far as fuel iterations
RECURSIVE RunAlone(_, _, _, _, _)
RunAlone(run, instructions, maxRegs, count, fuel) ==
    IF run.pc # "loop" \/ fuel = 0 THEN run
    ELSE IF run.halt THEN ReturnValue(run, maxRegs)
    ELSE RunAlone(Iterate(run, instructions, maxRegs, count), instructions,
                  maxRegs, count, fuel - 1)

Alone(args) ==
    RunAlone(EnterExec(args, maxRegisters), program.instructions, maxRegisters,
             instrCount, AloneFuel)

\* C11: callers stepped in any interleaving over one program: no step of a
\* caller changes the program once it is made, nor the run of another
\* caller, and a caller that returns returns what the call returns when it
\* runs alone.
C11_SharedProgram ==
    [][/\ program.made => program' = program
       /\ \A r \in callers :
              /\ Stepped(r) => \A q \in callers \ {r} : runs'[q] = runs[q]
              /\ (runs[r].pc = "loop" /\ runs'[r].pc = "returned")
                 => /\ Alone(runs[r].args).pc = "returned"
                    /\ runs'[r].result = Alone(runs[r].args).result
      ]_vars

\* caller 1 has returned from its call on <<2, 1>> while caller 2 is in the
\* middle of its call on <<1>>
C11_Witness ==
    /\ callers = RunIds /\ program.made
    /\ runs[1].pc = "returned" /\ runs[1].args = <<2, 1>> /\ runs[1].steps >= 2
    /\ runs[1].result = Alone(<<2, 1>>).result /\ runs[1].result # 0
    /\ runs[2].pc = "loop" /\ runs[2].args = <<1>> /\ runs[2].steps >= 1
    /\ ~runs[2].halt

\* caller r enters exec: from outside the loop into it
Entered(r) == runs[r].pc # "loop" /\ runs'[r].pc = "loop"

\* C12: a call of exec starts at location 0, not halted, with maxRegisters
\* registers: register i is the i-th argument where there is one and 0
\* where there is none, whatever the caller's earlier call left.
C12_InitialState ==
    [][\A r \in callers :
          Entered(r) =>
              /\ runs'[r].loc = 0 /\ ~runs'[r].halt
              /\ DOMAIN runs'[r].values = 1..maxRegisters
              /\ \A i \in 1..maxRegisters :
                     runs'[r].values[i]
                     = IF i <= Len(runs'[r].args) THEN runs'[r].args[i] ELSE 0
      ]_vars

\* a call on the one argument 1 of a program with two registers, entered
\* and not yet stepped: registers 1 and 0
C12_Witness ==
    \E r \in callers :
        /\ maxRegisters = 2
        /\ runs[r].pc = "loop" /\ runs[r].steps = 0 /\ runs[r].args = <<1>>
        /\ runs[r].values = <<1, 0>> /\ runs[r].loc = 0

\* the instruction caller r's next iteration fetches
Current(r) == program.instructions[runs[r].loc + 1]

\* caller r's next iteration dispatches an instruction of the type, on a
\* register of the register file
Dispatches(r, type) ==
    /\ Stepped(r) /\ runs[r].loc < instrCount
    /\ Current(r).type = type
    /\ Current(r).currentRegister < maxRegisters

\* C13: an increment of a register holding the largest value of IntType,
\* 2^IntBits - 1, leaves 0 in it, does not end the evaluation and goes to
\* its target like any other increment.
C13_IncrementWraps ==
    [][\A r \in callers :
          (/\ Dispatches(r, INCR)
           /\ runs[r].values[Current(r).currentRegister + 1] = Modulus - 1)
          => /\ runs'[r].values[Current(r).currentRegister + 1] = 0
             /\ runs'[r].pc = "loop"
             /\ runs'[r].loc = Current(r).location1
      ]_vars

\* "R1+ -> L0" as the first instruction, register 1 holding the largest
\* value: after one iteration register 1 holds 0 and the run is back at L0
C13_Witness ==
    \E r \in callers :
        /\ program.made /\ program.ok /\ program.instructions[1] = Increment(1, 0)
        /\ runs[r].args = <<0, Modulus - 1>>
        /\ runs[r].pc = "loop" /\ runs[r].steps = 1 /\ ~runs[r].halt
        /\ runs[r].values = <<0, 0>> /\ runs[r].loc = 0

\* the locations an instruction can send the run to
Targets(ins) ==
    IF ins.type = INCR THEN {ins.location1}
    ELSE IF ins.type = DECR THEN {ins.location1, ins.location2}
    ELSE { }

\* the locations a run can come to from the locations seen
RECURSIVE Reachable(_, _)
Reachable(instructions, seen) ==
    LET inside == {l \in seen : l < Len(instructions)}
        more   == seen \cup UNION {Targets(instructions[l + 1]) : l \in inside}
    IN  IF more = seen THEN seen ELSE Reachable(instructions, more)

\* no location the program can come to holds a Halt or lies outside the table
Endless ==
    /\ program.made /\ program.ok
    /\ \A l \in Reachable(program.instructions, {0}) :
           l < instrCount /\ program.instructions[l + 1].type # HALT

\* the state a run ends from: its current instruction is a Halt, or its
\* location has left the table
AtEnd(run) ==
    \/ run.loc >= instrCount
    \/ program.instructions[run.loc + 1].type = HALT

\* C14: the loop has no step budget.  A run ends only from a halted state, and
\* it becomes halted only by dispatching a Halt or by going to a location
\* beyond the table; so a run of a program that can come to neither (such as
\* "L0: R0+ -> L0") is never halted and never returns, however many iterations
\* it has made and however often its registers have wrapped around.
C14_NoStepBudget ==
    /\ [][\A r \in callers :
             /\ (runs[r].pc = "loop" /\ runs'[r].pc = "returned") => runs[r].halt
             /\ (Stepped(r) /\ runs'[r].halt)
                => (AtEnd(runs[r]) \/ runs'[r].loc > instrCount)
         ]_vars
    /\ [](Endless => \A r \in callers :
                         runs[r].pc \in {"idle", "loop"} /\ ~runs[r].halt)

\* "L0: R1+ -> L0" started with register 1 at zero, after more iterations than
\* the counter counts, register 1 back at zero: it went round once
C14_Witness ==
    \E r \in callers :
        /\ Endless /\ program.instructions[1] = Increment(1, 0)
        /\ runs[r].args = << >> /\ runs[r].pc = "loop" /\ ~runs[r].halt
        /\ runs[r].steps = MaxSteps /\ runs[r].values = <<0, 0>>

\* the registers caller r's step changes
Changed(r) ==
    {i \in 1..maxRegisters : runs'[r].values[i] # runs[r].values[i]}

\* C15: an iteration changes no register but the one its instruction names,
\* and that one by exactly one (modulo 2^IntBits): an increment adds one and
\* goes to its target whatever the value; a decrement takes one off a positive
\* register and leaves a zero register alone; a Halt changes no register and
\* not the location.
C15_Frame ==
    [][\A r \in callers :
          (Stepped(r) /\ runs[r].loc < instrCount)
          => /\ DOMAIN runs'[r].values = DOMAIN runs[r].values
             /\ Changed(r) \subseteq {Current(r).currentRegister + 1}
             /\ \A i \in Changed(r) :
                    (runs'[r].values[i] - runs[r].values[i]) % Modulus
                        \in {1, Modulus - 1}
             /\ Dispatches(r, INCR)
                => /\ runs'[r].values[Current(r).currentRegister + 1]
                        = (runs[r].values[Current(r).currentRegister + 1] + 1) % Modulus
                   /\ runs'[r].loc = Current(r).location1
             /\ Dispatches(r, DECR)
                => IF runs[r].values[Current(r).currentRegister + 1] > 0
                   THEN /\ runs'[r].values[Current(r).currentRegister + 1]
                             = runs[r].values[Current(r).currentRegister + 1] - 1
                        /\ runs'[r].loc = Current(r).location1
                   ELSE /\ Changed(r) = { }
                        /\ runs'[r].loc = Current(r).location2
             /\ Current(r).type = HALT
                => /\ Changed(r) = { }
                   /\ runs'[r].loc = runs[r].loc
                   /\ runs'[r].halt
      ]_vars

\* "L0: R0- -> L1, L2" started with <<2, 1>>: after one iteration register 0
\* holds 1 and register 1 still 1; and a run stopped by a Halt at L1 with the
\* registers it had
C15_Witness ==
    /\ \E r \in callers :
        /\ program.made /\ program.ok
        /\ program.instructions = <<Decrement(0, 0, 1), Halt>>
        /\ runs[r].args = <<2, 1>> /\ runs[r].pc = "loop" /\ runs[r].steps = 1
        /\ runs[r].values = <<1, 1>> /\ runs[r].loc = 0
    /\ \E r \in callers :
        /\ runs[r].args = <<0, Modulus - 1>> /\ runs[r].pc = "loop"
        /\ runs[r].halt /\ runs[r].loc = 1
        /\ runs[r].values = <<0, Modulus - 1>>

\* a tab at the places ks of a line and nothing at the other places
TabsAt(ks) == [j \in 1..9 |-> IF j \in ks THEN <<TAB>> ELSE << >>]

\* the spacings a text is written again with: none, a space and a tab at
\* every place, a tab at every other place
Respacings ==
    {Uniform(<< >>), Uniform(<<SP, TAB>>), TabsAt({2, 4, 6, 8}), TabsAt({3, 5, 7, 9})}

\* the lines with the spaces of g at the places where spaces may stand
Respace(ls, g) == [k \in 1..Len(ls) |-> [ls[k] EXCEPT !.gap = g]]

\* no line of ls is cut short
Uncut(ls) == \A k \in 1..Len(ls) : ls[k].cut < 0

\* what a build makes of the text is the program made
MakesProgram(text, checked) ==
    LET made == make(text, checked, instrCount)
    IN  made.ok = program.ok /\ made.instructions = program.instructions

\* C16: spaces and tabs are insignificant where skipSpaces stands: before
\* and after the ':' of "L<n>:", between register and sign, between sign and
\* "->", between "->" and the target, before and after ',', and before the
\* terminator.  The text written again with other spaces at these places
\* (none, a space and a tab at each, a tab at every other one) makes the same
\* program in the build that made this one, or fails as well.
C16_WhitespaceInsignificant ==
    (program.by = "make" /\ Uncut(lines))
    => \A checked \in BOOLEAN :
           (program.oob => MakesProgram(input, checked))
           => \A g \in Respacings :
                  MakesProgram(Render(Respace(lines, g)), checked)

\* "L0 : R10- -> L12, L3" and a second line made into a program, which the
\* same lines without any space make too, and the same with tabs only
\* after ':', after the sign, before ',' and before the terminator
C16_Witness ==
    /\ program.by = "make" /\ program.ok /\ instrCount = 2 /\ Len(lines) = 2
    /\ Uncut(lines) /\ lines[1].gap = ReadmeStyle /\ lines[1].prefix = 0
    /\ lines[1].stmt = Decrement(10, 12, 3)
    /\ program.instructions[1] = Decrement(10, 12, 3)
    /\ Render(Respace(lines, TabsAt({3, 5, 7, 9}))) # input
    /\ MakesProgram(Render(Respace(lines, Uniform(<< >>))), TRUE)
    /\ MakesProgram(Render(Respace(lines, TabsAt({3, 5, 7, 9}))), TRUE)

\* C17: a program that is made has exactly instrCount slots; when the text
\* is k statements as the grammar has them, k less than instrCount, parse
\* succeeds, slots 0 .. k-1 hold the k statements in the order of the text
\* and slots k .. instrCount-1 hold Halt.
C17_HaltPadding ==
    /\ (program.made /\ program.ok) => Len(program.instructions) = instrCount
    /\ (/\ program.made /\ Len(lines) < instrCount
        /\ PlainUpTo(lines, Len(lines)))
       => /\ program.ok
          /\ \A k \in 1..instrCount :
                 program.instructions[k]
                 = IF k <= Len(lines) THEN lines[k].stmt ELSE Halt

\* "R10- -> L12, L3" alone made with instrCount 3: the decrement, then two
\* Halt
C17_Witness ==
    /\ program.by = "make" /\ program.ok /\ instrCount = 3
    /\ Len(lines) = 1 /\ PlainUpTo(lines, 1)
    /\ lines[1].stmt = Decrement(10, 12, 3)
    /\ program.instructions = <<Decrement(10, 12, 3), Halt, Halt>>

\* the run of caller r is about to read or write the register its current
\* instruction names
AccessesRegister(r) ==
    /\ InLoop(r) /\ runs[r].loc < instrCount
    /\ Current(r).type \in {INCR, DECR}

\* C18: the register an instruction is about to read or write is one of the
\* maxRegisters registers of the call, for every program made and every call.
C18_RegisterInBounds ==
    \A r \in callers :
        (program.made /\ program.ok /\ AccessesRegister(r))
        => Current(r).currentRegister < maxRegisters

\* C19: a program generate makes from a well-formed text has its capacities
\* from the text: every target an instruction can jump to is a slot of the
\* table and every register it names is a register of the call.  So no run
\* fails, the location of a run is always inside the table, and a run is
\* halted only at a slot that holds Halt.
C19_GeneratedInBounds ==
    (program.by = "generate" /\ program.ok /\ WellFormedText(lines))
    => /\ \A k \in 1..instrCount :
              /\ Targets(program.instructions[k]) \subseteq 0..(instrCount - 1)
              /\ program.instructions[k].type \in {INCR, DECR}
                 => program.instructions[k].currentRegister < maxRegisters
       /\ \A r \in callers :
              /\ runs[r].pc # "error"
              /\ runs[r].pc # "idle" => runs[r].loc < instrCount
              /\ runs[r].halt => program.instructions[runs[r].loc + 1].type = HALT

\* "L0 : R1- -> L1, L2" and "L1 : HALT" generated: three slots, the third a
\* Halt no line stands for; the call on no arguments went there from L0,
\* halted and returned
C19_Witness ==
    \E r \in callers :
        /\ program.by = "generate" /\ program.ok /\ WellFormedText(lines)
        /\ instrCount = 3 /\ maxRegisters = 2
        /\ program.instructions = <<Decrement(1, 1, 2), Halt, Halt>>
        /\ runs[r].args = << >> /\ runs[r].pc = "returned" /\ runs[r].steps = 2
        /\ runs[r].halt /\ runs[r].loc = 2

\* C20: parse reads no character at an index at or beyond the size of the
\* input: no access of isChar, matchChar, matchStr or the switch on the sign
\* is outside the text, whatever the text and wherever it ends.
C20_NoReadOutsideInput ==
    program.made => ~program.oob

=============================================================================
